---- MODULE Spec2Model ----
(***************************************************************************)
(* Model of the timestamp pipeline of timestamps-from-URL:                 *)
(*   src/src/timestamp_analyzer.py        TimestampAnalyzer                *)
(*   src/src/smart_timestamp_generator.py SmartTimestampGenerator          *)
(*   src/src/timestamp_generator.py       generate_timestamps,             *)
(*                                        parse_timestamps_from_response   *)
(*   src/backend/app/main.py              validate_timestamps              *)
(* Times are whole seconds.  Sequences are 1-based here while the Python   *)
(* lists are 0-based: a Python index i is the TLA+ index i + 1, and the    *)
(* definitions below keep the Python (0-based) indices in their values.    *)
(***************************************************************************)
EXTENDS Integers, Sequences, FiniteSets, TLC

VARIABLES
    call,                  \* the function the caller invoked
    pc,                    \* position of the running call
    transcript,            \* Transcript: [language, segments, duration]
    video_title,           \* the video_title argument
    min_duration,          \* the min_duration argument
    use_heuristics_fallback, \* the use_heuristics_fallback argument
    target_count,          \* the target_count of analyze / _optimize_cluster_count
    break_points,          \* result of _find_break_points (sorted list)
    clusters,              \* the clusters list of analyze
    min_duration_cluster,  \* local of the shrink loop (None or an index)
    max_duration_cluster,  \* local of the grow loop (None or an index)
    mid_idx,               \* local of the grow loop
    ollama_available,      \* what check_ollama_available returned
    available_models,      \* what get_available_models returned
    timestamps,            \* the timestamps list: argument of validate_timestamps,
                           \* local of generate_timestamps
    heuristic_timestamps,  \* local of generate_timestamps
    response,              \* the raw model response handed to the parser
    requests,              \* the generation requests sent to the model service
    lists,                 \* the list objects holding segments: lists[id] is the
                           \* content of the list object id
    cluster_lists,         \* for each cluster, the list object its .segments is
    validated,             \* the candidates accepted by the validation loop
    result,                \* the value returned to the caller
    raised                 \* the exception that reached the caller ("" for none)

\* the arguments of the call: no action assigns them
InputVars == <<call, transcript, video_title, min_duration, use_heuristics_fallback>>

vars == <<InputVars, pc, target_count, break_points, clusters,
          min_duration_cluster, max_duration_cluster, mid_idx,
          ollama_available, available_models, timestamps, heuristic_timestamps,
          response, requests, lists, cluster_lists, validated, result, raised>>

\* Python's None for the index locals (no list index is negative)
None == -1

(***************************************************************************)
(* Bounds of the model.                                                    *)
(***************************************************************************)
MaxSegs == 4
MaxTarget == 3
MaxCands == 3
MaxSmartSegs == 3

(***************************************************************************)
(* Generic helpers.                                                        *)
(***************************************************************************)
SetMax(S) == CHOOSE x \in S : \A y \in S : y <= x

\* sorted(list(set)): the ascending list of the elements of a set of integers
RECURSIVE SortedList(_)
SortedList(S) ==
    IF S = {} THEN <<>>
    ELSE LET m == CHOOSE x \in S : \A y \in S : x <= y
         IN  <<m>> \o SortedList(S \ {m})

\* All sequences over S of length 0..n
SeqsUpTo(S, n) == UNION { [1..k -> S] : k \in 0..n }

\* list[a:b] of Python (0-based, b exclusive)
Slice(s, a, b) ==
    LET stop == IF b > Len(s) THEN Len(s) ELSE b
    IN  IF stop <= a THEN <<>> ELSE SubSeq(s, a + 1, stop)

(***************************************************************************)
(* Transcripts.  A segment text is one word; the words below are the ones  *)
(* the pattern tables of the source are evaluated on.                      *)
(***************************************************************************)
\* the words of the model that a pattern of PT_TRANSITIONS matches
PT_TRANSITIONS == {"agora", "então"}
\* the words of the model that a pattern of EN_TRANSITIONS matches
EN_TRANSITIONS == {}

\* a segment shape: pause before the segment, its length, its text
AnalyzerShapes ==
    { [gap |-> g, dur |-> d, text |-> t] :
        g \in {0, 3}, d \in {20, 100}, t \in {"xyz"} }
    \cup { [gap |-> 0, dur |-> 20, text |-> "agora"] }

RECURSIVE BuildSegments(_, _)
BuildSegments(shapes, t0) ==
    IF shapes = <<>> THEN <<>>
    ELSE LET h == Head(shapes)
             s == t0 + h.gap
         IN  <<[start |-> s, end |-> s + h.dur, text |-> h.text]>>
             \o BuildSegments(Tail(shapes), s + h.dur)

MakeTranscript(shapes) ==
    LET segs == BuildSegments(shapes, 0)
    IN  [language |-> "pt",
         segments |-> segs,
         duration |-> IF segs = <<>> THEN 0 ELSE segs[Len(segs)].end]

(***************************************************************************)
(* TimestampAnalyzer._find_break_points                                    *)
(***************************************************************************)
\* lines 65 and 138-141
MatchesTransition(text, language) ==
    text \in (IF language \in {"pt", "pt-br"} THEN PT_TRANSITIONS ELSE EN_TRANSITIONS)

\* one pass of the for loop body for the Python index i, on the set bps
BreakPointsAt(segs, i, bps, language) ==
    LET segment == segs[i + 1]
        prev_segment == segs[i]
        pause_duration == segment.start - prev_segment.end
    IN  IF pause_duration > 2 THEN bps \cup {i}
        ELSE LET b1 == IF MatchesTransition(segment.text, language) THEN bps \cup {i} ELSE bps
                 time_since_last == segment.start - segs[SetMax(b1) + 1].start
             IN  IF (i - 1) \notin b1 /\ time_since_last > 120
                 THEN b1 \cup {i} ELSE b1

RECURSIVE BreakPointsFrom(_, _, _, _)
BreakPointsFrom(segs, i, bps, language) ==
    IF i >= Len(segs) THEN bps
    ELSE BreakPointsFrom(segs, i + 1, BreakPointsAt(segs, i, bps, language), language)

\* the indices from the highest down, as sorted(..., reverse=True) gives them
FindBreakPointsDescending(tr) ==
    LET up == SortedList(BreakPointsFrom(tr.segments, 1, {0}, tr.language))
    IN  [k \in 1..Len(up) |-> up[Len(up) + 1 - k]]

\* lines 123-149
FindBreakPoints(tr) == SortedList(BreakPointsFrom(tr.segments, 1, {0}, tr.language))

(***************************************************************************)
(* TimestampAnalyzer._cluster_segments                                     *)
(***************************************************************************)
Duration(c) == c.end - c.start

RECURSIVE ClusterFrom(_, _, _, _, _)
ClusterFrom(segs, bps, i, md, cl) ==
    IF i >= Len(bps) THEN cl
    ELSE LET start_idx == bps[i + 1]
             end_idx == IF i + 1 < Len(bps) THEN bps[i + 2] ELSE Len(segs)
         IN  IF end_idx <= start_idx THEN ClusterFrom(segs, bps, i + 1, md, cl)
             ELSE LET cluster_segments == Slice(segs, start_idx, end_idx)
                      last == cluster_segments[Len(cluster_segments)]
                      duration == last.end - cluster_segments[1].start
                  IN  IF 2 * duration < md /\ Len(cl) > 0
                      THEN ClusterFrom(segs, bps, i + 1, md,
                             [cl EXCEPT ![Len(cl)] =
                                [@ EXCEPT !.segments = @ \o cluster_segments,
                                          !.end = last.end]])
                      ELSE ClusterFrom(segs, bps, i + 1, md,
                             Append(cl, [start |-> cluster_segments[1].start,
                                         end |-> last.end,
                                         segments |-> cluster_segments]))

\* one cluster for each range between consecutive break points: the branch
\* of lines 172-175 never taken
ClusterSegmentsNoMerge(tr, bps, md) ==
    [i \in 1..Len(bps) |->
        LET cluster_segments ==
                Slice(tr.segments, bps[i],
                      IF i < Len(bps) THEN bps[i + 1] ELSE Len(tr.segments))
        IN  [start |-> cluster_segments[1].start,
             end |-> cluster_segments[Len(cluster_segments)].end,
             segments |-> cluster_segments]]

ClusterSegments(tr, bps, md) == ClusterFrom(tr.segments, bps, 0, md, <<>>)

(***************************************************************************)
(* TimestampAnalyzer._optimize_cluster_count                               *)
(***************************************************************************)
\* del lst[i] (Python index i)
DelAt(lst, i) == Slice(lst, 0, i) \o Slice(lst, i + 1, Len(lst))

\* the scan of lines 197-206: the lowest index of a cluster of smallest
\* duration that has a neighbour
MinDurationCluster(cl) ==
    LET ok == { i \in 0..(Len(cl) - 1) : i > 0 \/ i < Len(cl) - 1 }
    IN  IF ok = {} THEN None
        ELSE CHOOSE i \in ok :
               /\ \A j \in ok : Duration(cl[i + 1]) <= Duration(cl[j + 1])
               /\ \A j \in ok : j < i => Duration(cl[j + 1]) > Duration(cl[i + 1])

\* the test of lines 213-215 with <= between the neighbours' durations
MergesWithPreviousOnTie(cl, i) ==
    i > 0 /\ (i = Len(cl) - 1 \/ Duration(cl[i]) <= Duration(cl[i + 2]))

\* lines 213-215: the cluster i is merged with the previous one
MergesWithPrevious(cl, i) ==
    i > 0 /\ (i = Len(cl) - 1 \/ Duration(cl[i]) < Duration(cl[i + 2]))

\* a merge that forgets the assignment to .end (lines 218 and 223)
MergeIntoKeepsEnd(cl, a) ==
    DelAt([cl EXCEPT ![a + 1] =
             [@ EXCEPT !.segments = @ \o cl[a + 2].segments]], a + 1)

\* clusters[a].segments.extend(clusters[a+1].segments); clusters[a].end = ...;
\* del clusters[a+1]
MergeInto(cl, a) ==
    DelAt([cl EXCEPT ![a + 1] =
             [@ EXCEPT !.segments = @ \o cl[a + 2].segments,
                       !.end = cl[a + 2].end]], a + 1)

\* lines 212-224
MergeCluster(cl, i) ==
    IF MergesWithPrevious(cl, i) THEN MergeInto(cl, i - 1)
    ELSE IF i < Len(cl) - 1 THEN MergeInto(cl, i)
    ELSE cl

\* the scan of lines 229-236: the lowest index of a longest cluster among
\* those longer than 2 * min_duration
MaxDurationCluster(cl, md) ==
    LET ok == { i \in 0..(Len(cl) - 1) :
                  Duration(cl[i + 1]) > 0 /\ Duration(cl[i + 1]) > md * 2 }
    IN  IF ok = {} THEN None
        ELSE CHOOSE i \in ok :
               /\ \A j \in ok : Duration(cl[j + 1]) <= Duration(cl[i + 1])
               /\ \A j \in ok : j < i => Duration(cl[j + 1]) < Duration(cl[i + 1])

\* lines 242-259
SplitCluster(cl, i) ==
    LET cluster == cl[i + 1]
        mid == Len(cluster.segments) \div 2
    IN  IF mid > 0
        THEN LET cluster1 == [start |-> cluster.start,
                              end |-> cluster.segments[mid].end,
                              segments |-> Slice(cluster.segments, 0, mid)]
                 cluster2 == [start |-> cluster.segments[mid + 1].start,
                              end |-> cluster.end,
                              segments |-> Slice(cluster.segments, mid,
                                                 Len(cluster.segments))]
             IN  Slice(cl, 0, i) \o <<cluster1, cluster2>>
                 \o Slice(cl, i + 1, Len(cl))
        ELSE cl

(***************************************************************************)
(* The list objects behind the values above.  transcript.segments is the   *)
(* list object TranscriptList; a slice, a copy() and a [] build a new list *)
(* object, extend and append change the one they are called on.  The       *)
(* operators below follow the same statements as ClusterFrom, MergeCluster *)
(* and SplitCluster, take their decisions from the same values, and give   *)
(* the list objects and the object of each cluster's .segments.            *)
(***************************************************************************)
TranscriptList == 1

\* a list constructor that hands back the transcript's own list object
NewListReusingFirst(heap) == TranscriptList

\* the list object a slice, a copy() or a [] builds
NewList(heap) == Len(heap) + 1

\* the object id holds content from now on
Store(heap, id, content) ==
    IF id > Len(heap) THEN Append(heap, content)
    ELSE [heap EXCEPT ![id] = content]

\* id.extend(added)
Extend(heap, id, added) == [heap EXCEPT ![id] = @ \o added]

\* _cluster_segments, lines 160-182
RECURSIVE ClusterListsFrom(_, _, _, _, _, _)
ClusterListsFrom(segs, bps, i, md, heap, ids) ==
    IF i >= Len(bps) THEN [lists |-> heap, cluster_lists |-> ids]
    ELSE LET start_idx == bps[i + 1]
             end_idx == IF i + 1 < Len(bps) THEN bps[i + 2] ELSE Len(segs)
         IN  IF end_idx <= start_idx
             THEN ClusterListsFrom(segs, bps, i + 1, md, heap, ids)
             ELSE LET cluster_segments == NewList(heap)
                      sliced == Store(heap, cluster_segments,
                                      Slice(heap[TranscriptList], start_idx, end_idx))
                      duration == segs[end_idx].end - segs[start_idx + 1].start
                  IN  IF 2 * duration < md /\ Len(ids) > 0
                      THEN ClusterListsFrom(segs, bps, i + 1, md,
                             Extend(sliced, ids[Len(ids)], sliced[cluster_segments]),
                             ids)
                      ELSE ClusterListsFrom(segs, bps, i + 1, md, sliced,
                                            Append(ids, cluster_segments))

\* lines 212-224: the extend and the del of a merge
MergeLists(cl, i, heap, ids) ==
    LET a == IF MergesWithPrevious(cl, i) THEN i - 1
             ELSE IF i < Len(cl) - 1 THEN i
             ELSE None
    IN  IF a = None THEN [lists |-> heap, cluster_lists |-> ids]
        ELSE [lists |-> Extend(heap, ids[a + 1], heap[ids[a + 2]]),
              cluster_lists |-> DelAt(ids, a + 1)]

\* lines 242-259: the two slices of a split
SplitLists(cl, i, heap, ids) ==
    LET mid == Len(cl[i + 1].segments) \div 2
        segments == ids[i + 1]
        first == NewList(heap)
        heap1 == Store(heap, first, Slice(heap[segments], 0, mid))
        second == NewList(heap1)
        heap2 == Store(heap1, second,
                       Slice(heap1[segments], mid, Len(heap1[segments])))
    IN  IF mid > 0
        THEN [lists |-> heap2,
              cluster_lists |-> Slice(ids, 0, i) \o <<first, second>>
                                \o Slice(ids, i + 1, Len(ids))]
        ELSE [lists |-> heap, cluster_lists |-> ids]

\* the while test of line 195 stopping one cluster early
ShrinkConditionOneEarly(cl, t) == Len(cl) > t + 1 /\ Len(cl) > 1

\* line 195
ShrinkCondition(cl, t) == Len(cl) > t /\ Len(cl) > 1
\* the while test of line 227 with 0.5 for 0.7
GrowConditionHalf(cl, t) == 10 * Len(cl) < 5 * t

\* line 227: len(clusters) < target_count * 0.7
GrowCondition(cl, t) == 10 * Len(cl) < 7 * t

(***************************************************************************)
(* TimestampAnalyzer.analyze, one action per stage and per loop iteration  *)
(***************************************************************************)
AnalyzerLocals == <<min_duration_cluster, max_duration_cluster, mid_idx>>
ValidatorVars == <<timestamps, response, validated, result>>
GeneratorVars ==
    <<ollama_available, available_models, heuristic_timestamps, requests, raised>>
ListVars == <<lists, cluster_lists>>
AnalyzerVars == <<target_count, break_points, clusters, AnalyzerLocals, ListVars>>

\* the variables a call does not use keep these values
NoResponse == [kind |-> "none"]
ValidatorIdle ==
    /\ timestamps = <<>>
    /\ response = NoResponse
    /\ validated = <<>>
    /\ result = <<>>
GeneratorIdle ==
    /\ ollama_available = FALSE
    /\ available_models = <<>>
    /\ heuristic_timestamps = <<>>
    /\ requests = <<>>
    /\ raised = ""
AnalyzerIdle ==
    /\ target_count = 0
    /\ break_points = <<>>
    /\ clusters = <<>>
    /\ min_duration_cluster = None
    /\ max_duration_cluster = None
    /\ mid_idx = 0
    /\ lists = <<transcript.segments>>
    /\ cluster_lists = <<>>

Max(a, b) == IF a > b THEN a ELSE b
Min(a, b) == IF a < b THEN a ELSE b

\* lines 88-99
AutoTargetCount(duration) ==
    Min(IF duration < 600 THEN Max(3, duration \div 120)
        ELSE IF duration < 1800 THEN Max(5, duration \div 150)
        ELSE Max(10, duration \div 180),
        25)

\* a transcript without pauses or transition words, cut into segments of
\* the given lengths
Plain(durs) ==
    MakeTranscript([k \in 1..Len(durs) |-> [gap |-> 0, dur |-> durs[k], text |-> "xyz"]])

\* the ways to cut a stretch of time into segments of these lengths
SegmentLengths == {100, 150, 200, 300, 600}
RECURSIVE Segmentations(_)
Segmentations(total) ==
    IF total = 0 THEN {<<>>}
    ELSE UNION { { <<d>> \o s : s \in Segmentations(total - d) } :
                 d \in { x \in SegmentLengths : x <= total } }

\* 600 s transcripts: the segmentations above, twelve segments of 50 s and
\* twenty-four of 25 s
Transcripts600 ==
    { Plain(s) : s \in Segmentations(600) }
    \cup { Plain([k \in 1..12 |-> 50]), Plain([k \in 1..24 |-> 25]) }

\* lines 84-101
AnalyzeStart ==
    /\ UNCHANGED GeneratorVars
    /\ UNCHANGED ValidatorVars
    /\ pc = "analyze"
    /\ IF transcript.segments = <<>>
       THEN pc' = "done" /\ target_count' = target_count
       ELSE /\ pc' = "find_break_points"
            /\ target_count' = IF target_count = None
                               THEN AutoTargetCount(transcript.duration)
                               ELSE target_count
    /\ UNCHANGED <<InputVars, break_points, clusters, AnalyzerLocals, ListVars>>

FindBreakPointsStep ==
    /\ UNCHANGED GeneratorVars
    /\ UNCHANGED ValidatorVars
    /\ pc = "find_break_points"
    /\ break_points' = FindBreakPoints(transcript)
    /\ pc' = "cluster_segments"
    /\ UNCHANGED <<InputVars, target_count, clusters,
                   AnalyzerLocals, ListVars>>

ClusterSegmentsStep ==
    /\ UNCHANGED GeneratorVars
    /\ UNCHANGED ValidatorVars
    /\ pc = "cluster_segments"
    /\ clusters' = ClusterSegments(transcript, break_points, min_duration)
    /\ LET built == ClusterListsFrom(transcript.segments, break_points, 0,
                                     min_duration, lists, <<>>)
       IN  lists' = built.lists /\ cluster_lists' = built.cluster_lists
    /\ pc' = "shrink"
    /\ UNCHANGED <<InputVars, target_count, break_points,
                   AnalyzerLocals>>

\* the while test of line 195 fails: on to the grow loop
ShrinkExit ==
    /\ UNCHANGED GeneratorVars
    /\ UNCHANGED ValidatorVars
    /\ pc = "shrink"
    /\ ~ShrinkCondition(clusters, target_count)
    /\ pc' = "grow"
    /\ UNCHANGED <<InputVars, target_count, break_points,
                   clusters, AnalyzerLocals, ListVars>>

\* one iteration of the shrink loop
ShrinkIteration ==
    /\ UNCHANGED GeneratorVars
    /\ UNCHANGED ValidatorVars
    /\ pc = "shrink"
    /\ ShrinkCondition(clusters, target_count)
    /\ LET i == MinDurationCluster(clusters)
       IN  /\ min_duration_cluster' = i
           /\ IF i = None
              THEN pc' = "grow" /\ clusters' = clusters /\ UNCHANGED ListVars
              ELSE /\ pc' = "shrink" /\ clusters' = MergeCluster(clusters, i)
                   /\ LET merged == MergeLists(clusters, i, lists, cluster_lists)
                      IN  /\ lists' = merged.lists
                          /\ cluster_lists' = merged.cluster_lists
    /\ UNCHANGED <<InputVars, target_count, break_points,
                   max_duration_cluster, mid_idx>>

\* the while test of line 227 fails: return clusters
GrowExit ==
    /\ UNCHANGED GeneratorVars
    /\ UNCHANGED ValidatorVars
    /\ pc = "grow"
    /\ ~GrowCondition(clusters, target_count)
    /\ pc' = "done"
    /\ UNCHANGED <<InputVars, target_count, break_points,
                   clusters, AnalyzerLocals, ListVars>>

\* one iteration of the grow loop
GrowIteration ==
    /\ UNCHANGED GeneratorVars
    /\ UNCHANGED ValidatorVars
    /\ pc = "grow"
    /\ GrowCondition(clusters, target_count)
    /\ LET i == MaxDurationCluster(clusters, min_duration)
       IN  /\ max_duration_cluster' = i
           /\ IF i = None
              THEN /\ pc' = "done"
                   /\ UNCHANGED <<clusters, mid_idx, ListVars>>
              ELSE /\ pc' = "grow"
                   /\ mid_idx' = Len(clusters[i + 1].segments) \div 2
                   /\ clusters' = SplitCluster(clusters, i)
                   /\ LET split == SplitLists(clusters, i, lists, cluster_lists)
                      IN  /\ lists' = split.lists
                          /\ cluster_lists' = split.cluster_lists
    /\ UNCHANGED <<InputVars, target_count, break_points,
                   min_duration_cluster>>

InitAnalyze ==
    /\ call = "analyze"
    /\ pc = "analyze"
    /\ transcript \in { MakeTranscript(s) : s \in SeqsUpTo(AnalyzerShapes, MaxSegs) }
                      \cup Transcripts600
    /\ min_duration \in {30, 45}
    /\ target_count \in IF transcript \in Transcripts600 THEN {None}
                         ELSE 1..MaxTarget \cup {None}
    /\ break_points = <<>>
    /\ clusters = <<>>
    /\ min_duration_cluster = None
    /\ max_duration_cluster = None
    /\ mid_idx = 0
    /\ lists = <<transcript.segments>>
    /\ cluster_lists = <<>>
    /\ video_title = ""
    /\ use_heuristics_fallback = TRUE
    /\ ValidatorIdle
    /\ GeneratorIdle

NextAnalyze ==
    \/ AnalyzeStart
    \/ FindBreakPointsStep
    \/ ClusterSegmentsStep
    \/ ShrinkExit
    \/ ShrinkIteration
    \/ GrowExit
    \/ GrowIteration

SpecAnalyze == InitAnalyze /\ [][NextAnalyze]_vars

(***************************************************************************)
(* Claims about the analyzer.                                              *)
(***************************************************************************)
\* C1: every iteration of the shrink loop and of the grow loop that stays in
\* its loop strictly changes the number of clusters (so the loops terminate).
C1_IterationChangesCount ==
    [][(pc \in {"shrink", "grow"} /\ pc' = pc)
         => Len(clusters') # Len(clusters)]_vars

RECURSIVE ConcatSegments(_)
ConcatSegments(cl) ==
    IF cl = <<>> THEN <<>> ELSE Head(cl).segments \o ConcatSegments(Tail(cl))

OrderedPartition(cl, segs) ==
    /\ ConcatSegments(cl) = segs
    /\ \A k \in 1..Len(cl) :
         /\ cl[k].segments # <<>>
         /\ cl[k].start = cl[k].segments[1].start
         /\ cl[k].end = cl[k].segments[Len(cl[k].segments)].end

\* C9: after _cluster_segments and after every merge or split iteration the
\* clusters are an ordered partition of the transcript's segments: their
\* segment lists concatenate to the transcript's segment sequence, none is
\* empty, and each start/end is its first segment's start / last segment's end.
C9_ClustersPartitionSegments ==
    pc \in {"shrink", "grow"} => OrderedPartition(clusters, transcript.segments)

\* C9 witness: a merge iteration has just run and left several clusters, one of
\* them holding more than one segment
C9_Witness ==
    /\ pc = "shrink"
    /\ min_duration_cluster # None
    /\ Len(clusters) >= 2
    /\ \E k \in 1..Len(clusters) : Len(clusters[k].segments) >= 2

(***************************************************************************)
(* Timestamps.  A confidence is held in hundredths (0.7 is 70).            *)
(***************************************************************************)
Timestamp(time, title, confidence) ==
    [time |-> time, title |-> title, confidence |-> confidence]

\* A time that came from a response text is a Python float.  NaN stands for
\* float("nan"), which json.loads gives for the token NaN and float() for the
\* string "nan"; it is no time of the model (every time is >= -5).
NaN == -1000000
IsNaN(x) == x = NaN

\* a < b and a - b on floats: a comparison with NaN is False, a difference
\* with NaN is NaN
FloatLess(a, b) == ~IsNaN(a) /\ ~IsNaN(b) /\ a < b
FloatSub(a, b) == IF IsNaN(a) \/ IsNaN(b) THEN NaN ELSE a - b

\* list.sort(key=lambda x: x.time): stable insertion by time
RECURSIVE InsertByTime(_, _)
InsertByTime(sorted, ts) ==
    IF sorted = <<>> THEN <<ts>>
    ELSE IF ts.time < Head(sorted).time THEN <<ts>> \o sorted
    ELSE <<Head(sorted)>> \o InsertByTime(Tail(sorted), ts)

\* the list left in the order it has, the sort not run
KeepOrder(lst) == lst

RECURSIVE SortByTime(_)
SortByTime(lst) ==
    IF lst = <<>> THEN <<>>
    ELSE InsertByTime(SortByTime(SubSeq(lst, 1, Len(lst) - 1)), lst[Len(lst)])

\* the orders list.sort can leave a list in: the sorted one, and any order when
\* a key is NaN (the comparisons then define no order)
SortOutcomes(lst) ==
    IF \E k \in 1..Len(lst) : IsNaN(lst[k].time)
    THEN { [k \in 1..Len(lst) |-> lst[p[k]]] : p \in Permutations(1..Len(lst)) }
    ELSE { SortByTime(lst) }

\* str.strip() on the titles of the model
Strip(title) ==
    IF title \in {"", " "} THEN ""
    ELSE IF title = " Setup " THEN "Setup"
    ELSE title

(***************************************************************************)
(* validate_timestamps (backend/app/main.py).  Its transcript is the API's *)
(* dict: segments of {text, start, duration}.                              *)
(***************************************************************************)
DefaultMinConfidence == 70

TotalDuration(tr) ==
    IF tr.segments # <<>>
    THEN LET last_segment == tr.segments[Len(tr.segments)]
         IN  last_segment.start + last_segment.duration
    ELSE 0

\* the spacing test of line 232 asking for no gap at all
TooCloseWithoutGap(time, last_time, md) == time - last_time < 0

\* line 232
TooClose(time, last_time, md) == FloatLess(FloatSub(time, last_time), md)

\* lines 222-240: the loop from the candidate k (1-based) on
RECURSIVE ValidateLoop(_, _, _, _, _, _, _)
ValidateLoop(cands, k, total_duration, min_confidence, md, acc, last_time) ==
    IF k > Len(cands) THEN acc
    ELSE LET ts == cands[k]
             drop == \/ ts.confidence < min_confidence
                     \/ FloatLess(ts.time, 0) \/ FloatLess(total_duration, ts.time)
                     \/ TooClose(ts.time, last_time, md)
                     \/ Strip(ts.title) = ""
         IN  IF drop
             THEN ValidateLoop(cands, k + 1, total_duration, min_confidence, md,
                               acc, last_time)
             ELSE ValidateLoop(cands, k + 1, total_duration, min_confidence, md,
                               Append(acc, ts), ts.time)

\* the head test of line 243 without its threshold disjunct
NeedsIntroOnlyIfEmpty(acc) == acc = <<>>

\* line 243
NeedsIntroAfter10(acc) == acc = <<>> \/ FloatLess(10, acc[1].time)

\* lines 242-252 with append in place of insert(0, ...)
ValidatePostIntroLast(acc, tr) ==
    IF NeedsIntroAfter10(acc)
    THEN acc \o <<[time |-> 0, title |-> "Introdução", confidence |-> 100,
                   evidence |-> IF tr.segments # <<>> THEN tr.segments[1].text ELSE ""]>>
    ELSE acc

\* lines 243-254
ValidatePost(acc, tr) ==
    IF NeedsIntroAfter10(acc)
    THEN <<[time |-> 0, title |-> "Introdução", confidence |-> 100,
            evidence |-> IF tr.segments # <<>> THEN tr.segments[1].text ELSE ""]>>
         \o acc
    ELSE acc

(***************************************************************************)
(* parse_timestamps_from_response (timestamp_generator.py).  A response is *)
(* held parsed: kind "no_json" (no {...} in the text), "bad_json" (the     *)
(* braces do not parse), or "json" with the value of data.get("timestamps",*)
(* []).  An array entry is type "dict" or "other"; its time is             *)
(* [kind |-> "num", val |-> n], [kind |-> "missing"], [kind |-> "bad"]     *)
(* (float() raises) or [kind |-> "nan"] (float() gives NaN); a missing     *)
(* title is "".                                                            *)
(***************************************************************************)
DefaultEntry == Timestamp(0, "Video Content", 50)
IntroEntry == Timestamp(0, "Introduction", 100)

\* line 370
ParseTooClose(time, last_time, md) ==
    FloatLess(FloatSub(time, last_time), md) /\ time # 0

\* lines 353-381: the loop from the entry k (1-based) on
RECURSIVE ParseLoop(_, _, _, _, _, _)
ParseLoop(raw, k, video_duration, md, acc, last_time) ==
    IF k > Len(raw) THEN acc
    ELSE LET ts == raw[k]
             skip == ParseLoop(raw, k + 1, video_duration, md, acc, last_time)
         IN  IF ts.type # "dict" THEN skip
             ELSE IF ts.time.kind = "bad" THEN skip
             ELSE LET t0 == IF ts.time.kind = "missing" THEN 0
                            ELSE IF ts.time.kind = "nan" THEN NaN
                            ELSE ts.time.val
                      title == Strip(ts.title)
                      time == IF FloatLess(t0, 0) THEN 0 ELSE t0
                  IN  IF title = "" THEN skip
                      ELSE IF FloatLess(video_duration, time) THEN skip
                      ELSE IF ParseTooClose(time, last_time, md) THEN skip
                      ELSE ParseLoop(raw, k + 1, video_duration, md,
                                     Append(acc, Timestamp(time, title, 100)), time)

\* line 384
ParseNeedsIntro(acc) == acc = <<>> \/ FloatLess(5, acc[1].time)

\* lines 384-385
WithIntro(acc) == IF ParseNeedsIntro(acc) THEN <<IntroEntry>> \o acc ELSE acc

\* lines 384-390
ParsePost(acc) == SortByTime(WithIntro(acc))

\* the fallbacks of lines 332-342 without the one of lines 344-347
ParseFallsBackOnTextOnly(resp) == resp.kind \in {"no_json", "bad_json"}

\* lines 332-347: the fallbacks taken before the loop
ParseFallsBack(resp) == resp.kind \in {"no_json", "bad_json"} \/ resp.timestamps = <<>>

ParseTimestampsFromResponse(resp, video_duration, md) ==
    IF ParseFallsBack(resp) THEN <<DefaultEntry>>
    ELSE ParsePost(ParseLoop(resp.timestamps, 1, video_duration, md, <<>>, -md))

(***************************************************************************)
(* SmartTimestampGenerator (smart_timestamp_generator.py).                 *)
(* A segment text is one of the words of SmartWords, a window's full_text  *)
(* the words of its segments joined by spaces.  Occurs gives, for a word,  *)
(* the strings of the source's tables that occur in it; with these words   *)
(* no table string spans two words, so "s in text" is "s occurs in one of  *)
(* the words".                                                             *)
(***************************************************************************)
SmartWords == {"xyz", "erro", "python", "então"}

Occurs(word) ==
    CASE word = "erro" -> {"erro"}
      [] word = "python" -> {"python"}
      [] word = "então" -> {"então"}
      [] OTHER -> {}

TOPIC_STARTERS ==
    {"primeiro", "segundo", "terceiro", "próximo", "agora", "então",
     "vamos falar", "vamos ver", "outro ponto", "outra coisa", "passando para",
     "sobre", "quanto a", "em relação a", "falando sobre", "começando",
     "iniciando", "partindo"}

\* the keys of COMMON_TOPICS in the order of the dict
TopicOrder ==
    <<"introdução", "configuração", "conceitos", "prática", "erros", "dicas",
      "recursos", "carreira", "conclusão">>

COMMON_TOPICS(topic) ==
    CASE topic = "introdução" -> {"olá", "bem-vindo", "hoje", "vamos", "falar", "vídeo"}
      [] topic = "configuração" -> {"instalar", "configurar", "setup", "ambiente", "preparar"}
      [] topic = "conceitos" -> {"o que é", "como funciona", "entender", "básico", "fundamental"}
      [] topic = "prática" -> {"exemplo", "demonstração", "vamos fazer", "código", "implementar"}
      [] topic = "erros" -> {"erro", "problema", "bug", "falha", "não funciona", "corrigir"}
      [] topic = "dicas" -> {"dica", "truque", "macete", "melhor forma", "recomendo"}
      [] topic = "recursos" -> {"ferramenta", "biblioteca", "framework", "package", "módulo"}
      [] topic = "carreira" -> {"junior", "sênior", "mercado", "trabalho", "emprego", "salário"}
      [] topic = "conclusão" -> {"resumo", "concluir", "final", "encerrar", "tchau", "até"}

\* the words of the model that \b[a-záêõç]{4,}\b matches and STOPWORDS lacks
FrequencyWords == {"erro", "python"}

\* the words of the model among the technical terms of line 183
TechTermWords == {"python"}

\* the list of line 329
TitleTechTerms ==
    {"javascript", "python", "react", "node", "api", "backend", "frontend",
     "git", "docker"}

\* str.title() on the words of the model
TitleCase(word) ==
    CASE word = "python" -> "Python"
      [] word = "erro" -> "Erro"
      [] word = "então" -> "Então"
      [] word = "agora" -> "Agora"
      [] word = "xyz" -> "Xyz"

\* [s.text for s in segments]
RECURSIVE Texts(_)
Texts(segs) == IF segs = <<>> THEN <<>> ELSE <<Head(segs).text>> \o Texts(Tail(segs))

\* any(s in text for s in strings), text given by its words
AnyOccurs(strings, words) ==
    \E k \in 1..Len(words) : Occurs(words[k]) \cap strings # {}

RECURSIVE FilterSeq(_, _)
FilterSeq(seq, keep) ==
    IF seq = <<>> THEN <<>>
    ELSE (IF Head(seq) \in keep THEN <<Head(seq)>> ELSE <<>>)
         \o FilterSeq(Tail(seq), keep)

\* the distinct elements of a list in the order of their first occurrence
RECURSIVE Distinct(_)
Distinct(seq) ==
    IF seq = <<>> THEN <<>>
    ELSE LET rest == Distinct(SubSeq(seq, 1, Len(seq) - 1))
             x == seq[Len(seq)]
         IN  IF \E k \in 1..Len(rest) : rest[k] = x THEN rest ELSE Append(rest, x)

Count(seq, x) == Cardinality({ k \in 1..Len(seq) : seq[k] = x })

\* Counter(words).most_common(): by count, ties in order of first occurrence
RECURSIVE InsertByCount(_, _, _)
InsertByCount(sorted, w, words) ==
    IF sorted = <<>> THEN <<w>>
    ELSE IF Count(words, w) > Count(words, Head(sorted)) THEN <<w>> \o sorted
    ELSE <<Head(sorted)>> \o InsertByCount(Tail(sorted), w, words)

RECURSIVE MostCommonFrom(_, _)
MostCommonFrom(dist, words) ==
    IF dist = <<>> THEN <<>>
    ELSE InsertByCount(MostCommonFrom(SubSeq(dist, 1, Len(dist) - 1), words),
                       dist[Len(dist)], words)

MostCommon(words) == MostCommonFrom(Distinct(words), words)

\* " ".join(list)
RECURSIVE JoinWords(_)
JoinWords(list) ==
    IF list = <<>> THEN ""
    ELSE IF Len(list) = 1 THEN list[1]
    ELSE list[1] \o " " \o JoinWords(Tail(list))

\* _summarize_window, lines 156-174
SummarizeWindow(segs) ==
    LET text == Texts(segs)
        hit == { k \in 1..Len(TopicOrder) : AnyOccurs(COMMON_TOPICS(TopicOrder[k]), text) }
        words == FilterSeq(text, FrequencyWords)
    IN  IF hit # {} THEN TopicOrder[CHOOSE k \in hit : \A j \in hit : k <= j]
        ELSE IF words # <<>>
             THEN JoinWords(SubSeq(MostCommon(words), 1,
                                   IF Len(MostCommon(words)) < 3
                                   THEN Len(MostCommon(words)) ELSE 3))
        ELSE "conteúdo"

\* _extract_main_topics, lines 176-204: list(set(tech_terms[:3])), given here in
\* the order of first occurrence; none of the model's words is one of the
\* actions of line 194
ExtractMainTopics(segs) ==
    LET tech_terms == FilterSeq(Texts(segs), TechTermWords)
    IN  Distinct(SubSeq(tech_terms, 1, IF Len(tech_terms) < 3 THEN Len(tech_terms) ELSE 3))

ContentWindow(start, end, segs) ==
    [start |-> start, end |-> end, segments |-> segs,
     summary |-> SummarizeWindow(segs), main_topics |-> ExtractMainTopics(segs)]

WindowSize == 120

\* _create_content_windows, lines 113-154: the loop from the segment k on
RECURSIVE WindowsFrom(_, _, _, _, _, _)
WindowsFrom(segs, k, window_size, windows, current_segments, window_start) ==
    IF k > Len(segs)
    THEN IF current_segments # <<>>
         THEN Append(windows,
                     ContentWindow(window_start,
                                   current_segments[Len(current_segments)].end,
                                   current_segments))
         ELSE windows
    ELSE LET segment == segs[k]
             cur == Append(current_segments, segment)
         IN  IF segment.end - window_start >= window_size
             THEN WindowsFrom(segs, k + 1, window_size,
                              Append(windows, ContentWindow(window_start, segment.end, cur)),
                              <<>>, segment.end)
             ELSE WindowsFrom(segs, k + 1, window_size, windows, cur, window_start)

CreateContentWindows(tr, window_size) ==
    WindowsFrom(tr.segments, 1, window_size, <<>>, <<>>, 0)

SetOf(seq) == { seq[k] : k \in 1..Len(seq) }

\* lines 211-232: the window i (Python index, i >= 1) starts a new topic
IsTopicChange(windows, i) ==
    LET prev_window == windows[i]
        curr_window == windows[i + 1]
        first_text == Texts(SubSeq(curr_window.segments, 1,
                                   IF Len(curr_window.segments) < 3
                                   THEN Len(curr_window.segments) ELSE 3))
        prev_topics == SetOf(prev_window.main_topics)
        curr_topics == SetOf(curr_window.main_topics)
    IN  \/ prev_window.summary # curr_window.summary
        \/ AnyOccurs(TOPIC_STARTERS, first_text)
        \/ /\ prev_topics # {} /\ curr_topics # {}
           \* similarity < 0.3
           /\ 10 * Cardinality(prev_topics \cap curr_topics)
                < 3 * Cardinality(prev_topics \cup curr_topics)

\* _detect_topic_changes, lines 206-234
RECURSIVE TopicChangesFrom(_, _, _)
TopicChangesFrom(windows, i, changes) ==
    IF i >= Len(windows) THEN changes
    ELSE TopicChangesFrom(windows, i + 1,
            IF IsTopicChange(windows, i) THEN Append(changes, i) ELSE changes)

DetectTopicChanges(windows) == TopicChangesFrom(windows, 1, <<0>>)

\* the title that stands for "this call raised ZeroDivisionError"
ZeroDivision == "<ZeroDivisionError>"

\* "junior" in video_title.lower() or "jr" in video_title.lower()
MentionsJunior(title) == title \in {"Dev Junior", "Dicas para JR"}

\* the dict of lines 311-321
TopicTitle(summary) ==
    CASE summary = "introdução" -> "Apresentação do conteúdo"
      [] summary = "configuração" -> "Configurando o ambiente"
      [] summary = "conceitos" -> "Conceitos fundamentais"
      [] summary = "prática" -> "Exemplo prático"
      [] summary = "erros" -> "Erros comuns"
      [] summary = "dicas" -> "Dicas importantes"
      [] summary = "recursos" -> "Ferramentas e recursos"
      [] summary = "carreira" -> "Sobre a carreira"
      [] summary = "conclusão" -> "Considerações finais"
      [] OTHER -> ""

\* lines 357-368
PositionTitle(window) ==
    IF window.end = 0 THEN ZeroDivision
    ELSE IF 10 * window.start < 2 * window.end THEN "Contexto inicial"
    ELSE IF 10 * window.start < 4 * window.end THEN "Desenvolvendo a ideia"
    ELSE IF 10 * window.start < 6 * window.end THEN "Ponto principal"
    ELSE IF 10 * window.start < 8 * window.end THEN "Aprofundando o tema"
    ELSE "Conclusões"

\* _create_title_for_window, lines 296-368.  None of the model's words is the
\* head of one of the phrase patterns of lines 344-350, so that step finds
\* no match; every word of TechTermWords is longer than 3 letters.
CreateTitleForWindow(window, title, is_first) ==
    IF is_first
    THEN IF MentionsJunior(title) THEN "O que um dev junior precisa saber"
         ELSE "Introdução"
    ELSE IF TopicTitle(window.summary) # "" THEN TopicTitle(window.summary)
    ELSE LET tech == { k \in 1..Len(window.main_topics) :
                         window.main_topics[k] \in TitleTechTerms }
         IN  IF tech # {}
             THEN "Trabalhando com "
                  \o TitleCase(window.main_topics[CHOOSE k \in tech : \A j \in tech : k <= j])
             ELSE IF window.main_topics # <<>>
             THEN TitleCase(window.main_topics[1])
             ELSE PositionTitle(window)

Entry(time, title) == [time |-> time, title |-> title]

\* lines 247-260: the loop over topic_changes from its index i on
RECURSIVE ChangeEntriesFrom(_, _, _, _, _, _)
ChangeEntriesFrom(windows, topic_changes, i, title, md, ts) ==
    IF i >= Len(topic_changes) THEN ts
    ELSE LET window == windows[topic_changes[i + 1] + 1]
         IN  IF ts # <<>> /\ window.start - ts[Len(ts)].time < md
             THEN ChangeEntriesFrom(windows, topic_changes, i + 1, title, md, ts)
             ELSE ChangeEntriesFrom(windows, topic_changes, i + 1, title, md,
                    Append(ts, Entry(window.start,
                                     CreateTitleForWindow(window, title, i = 0))))

\* line 263
SmartTargetCount(windows) ==
    LET n == windows[Len(windows)].end \div 180 IN IF n > 8 THEN n ELSE 8

\* lines 268-276: the loop over range(len(timestamps), target_count) from i on;
\* acc is [ts, raised].  int(i * interval) is (i * end) \div target_count: with
\* windows[-1].end below 1620 s the target is 8 and the float product is exact,
\* and so it is for the sums of the model's segment durations above that.
RECURSIVE IntervalEntriesFrom(_, _, _, _, _)
IntervalEntriesFrom(windows, i, target, title, acc) ==
    IF i >= target \/ acc.raised THEN acc
    ELSE LET time == (i * windows[Len(windows)].end) \div target
             hit == { k \in 1..Len(windows) :
                        windows[k].start <= time /\ time <= windows[k].end }
         IN  IF hit = {} THEN IntervalEntriesFrom(windows, i + 1, target, title, acc)
             ELSE LET window == windows[CHOOSE k \in hit : \A j \in hit : k <= j]
                      t == CreateTitleForWindow(window, title, FALSE)
                  IN  IF t = ZeroDivision THEN [acc EXCEPT !.raised = TRUE]
                      ELSE IF \E k \in 1..Len(acc.ts) : acc.ts[k].time = time
                      THEN IntervalEntriesFrom(windows, i + 1, target, title, acc)
                      ELSE IntervalEntriesFrom(windows, i + 1, target, title,
                             [acc EXCEPT !.ts = Append(@, Entry(time, t))])

\* the while loop of lines 289-291
RECURSIVE PartTitle(_, _, _)
PartTitle(original, counter, seen) ==
    LET t == original \o " - Parte " \o ToString(counter)
    IN  IF t \in seen THEN PartTitle(original, counter + 1, seen) ELSE t

\* lines 283-292: the loop from the entry k on
RECURSIVE UniqueTitlesFrom(_, _, _)
UniqueTitlesFrom(ts, k, seen) ==
    IF k > Len(ts) THEN ts
    ELSE LET t == IF ts[k].title \in seen THEN PartTitle(ts[k].title, 2, seen)
                  ELSE ts[k].title
         IN  UniqueTitlesFrom([ts EXCEPT ![k].title = t], k + 1, seen \cup {t})


\* lines 283-292
UniqueTitles(ts) == UniqueTitlesFrom(ts, 1, {})

\* the cut of line 280 one entry later
MaxTimestampsOneMore == 20 + 1

MaxTimestamps == 20


\* lines 263-276
AddIntervalEntries(windows, title, ts) ==
    LET target == SmartTargetCount(windows)
    IN  IF Len(ts) < target
        THEN IntervalEntriesFrom(windows, Len(ts), target, title,
                                 [ts |-> ts, raised |-> FALSE])
        ELSE [ts |-> ts, raised |-> FALSE]

\* _generate_final_timestamps, lines 236-294: [raised, value]
GenerateFinalTimestamps(windows, topic_changes, title, md) ==
    LET changes == ChangeEntriesFrom(windows, topic_changes, 0, title, md, <<>>)
        acc == AddIntervalEntries(windows, title, changes)
        sorted == SortByTime(acc.ts)
        cut == SubSeq(sorted, 1, IF Len(sorted) < MaxTimestamps THEN Len(sorted)
                                 ELSE MaxTimestamps)
    IN  IF acc.raised \/ \E k \in 1..Len(changes) : changes[k].title = ZeroDivision
        THEN [raised |-> TRUE, value |-> <<>>]
        ELSE [raised |-> FALSE, value |-> UniqueTitles(cut)]


\* line 93
SmartEmptyResult == <<Entry(0, "Início do Vídeo")>>

\* SmartTimestampGenerator.generate / generate_smart_timestamps: [raised, value]
GenerateSmartTimestamps(tr, title, md) ==
    IF tr.segments = <<>> THEN [raised |-> FALSE, value |-> SmartEmptyResult]
    ELSE LET windows == CreateContentWindows(tr, WindowSize)
         IN  GenerateFinalTimestamps(windows, DetectTopicChanges(windows), title, md)

\* the conversions of lines 162-168 / 281-287: dicts to Timestamp objects
RECURSIVE ToTimestamps(_, _)
ToTimestamps(dicts, confidence) ==
    IF dicts = <<>> THEN <<>>
    ELSE <<Timestamp(Head(dicts).time, Head(dicts).title, confidence)>>
         \o ToTimestamps(Tail(dicts), confidence)

(***************************************************************************)
(* The legacy path of generate_timestamps_heuristic: TimestampAnalyzer     *)
(* .analyze run to its end, and _generate_cluster_title.                   *)
(***************************************************************************)
\* the shrink loop, lines 195-224
RECURSIVE ShrinkLoop(_, _)
ShrinkLoop(cl, t) ==
    IF ShrinkCondition(cl, t) /\ MinDurationCluster(cl) # None
    THEN ShrinkLoop(MergeCluster(cl, MinDurationCluster(cl)), t)
    ELSE cl

\* the grow loop, lines 227-259: [hangs, clusters]; an iteration that leaves
\* the list as it was is repeated for ever
RECURSIVE GrowLoop(_, _, _)
GrowLoop(cl, t, md) ==
    IF GrowCondition(cl, t) /\ MaxDurationCluster(cl, md) # None
    THEN LET split == SplitCluster(cl, MaxDurationCluster(cl, md))
         IN  IF split = cl THEN [hangs |-> TRUE, clusters |-> cl]
             ELSE GrowLoop(split, t, md)
    ELSE [hangs |-> FALSE, clusters |-> cl]

\* the words of the model that \b\w{4,}\b matches and the stopwords lack
KeywordWords == {"erro", "python", "então", "agora"}

\* _generate_cluster_title, lines 263-322.  None of the keyword lists of
\* lines 273-287 and 307-315 occurs in a word of the model.
GenerateClusterTitle(cluster, language) ==
    LET first5 == SubSeq(cluster.segments, 1, Min(5, Len(cluster.segments)))
        important_words == MostCommon(FilterSeq(Texts(first5), KeywordWords))
        top3 == SubSeq(important_words, 1, Min(3, Len(important_words)))
        last_end == cluster.segments[Len(cluster.segments)].end
        denom == IF last_end = 0 THEN 1 ELSE last_end
    IN  IF top3 # <<>>
        THEN JoinWords([k \in 1..Len(top3) |-> TitleCase(top3[k])])
        ELSE IF language \in {"pt", "pt-br"}
        THEN IF 10 * cluster.start < denom THEN "Abertura"
             ELSE IF 10 * cluster.start > 9 * denom THEN "Encerramento"
             ELSE "Tópico " \o ToString((10 * cluster.start) \div denom)
        ELSE "Topic " \o ToString(cluster.start \div 60)

\* analyze, lines 84-119, with target_count None: [hangs, clusters]
Analyze(tr, md) ==
    IF tr.segments = <<>> THEN [hangs |-> FALSE, clusters |-> <<>>]
    ELSE GrowLoop(ShrinkLoop(ClusterSegments(tr, FindBreakPoints(tr), md),
                             AutoTargetCount(tr.duration)),
                  AutoTargetCount(tr.duration), md)

\* generate_timestamps_heuristic, lines 350-406: [hangs, value]
GenerateTimestampsHeuristic(tr, md) ==
    LET smart == GenerateSmartTimestamps(tr, "Vídeo", md)
        legacy == Analyze(tr, md)
    IN  IF ~smart.raised THEN [hangs |-> FALSE, value |-> ToTimestamps(smart.value, 80)]
        ELSE IF legacy.hangs THEN [hangs |-> TRUE, value |-> <<>>]
        ELSE [hangs |-> FALSE,
              value |-> [k \in 1..Len(legacy.clusters) |->
                           Timestamp(legacy.clusters[k].start,
                                     GenerateClusterTitle(legacy.clusters[k], tr.language),
                                     70)]]

(***************************************************************************)
(* generate_timestamps (timestamp_generator.py, lines 129-313)             *)
(***************************************************************************)
\* line 192
DefaultTitle(tr) ==
    IF tr.language \in {"pt", "pt-br"} THEN "Conteúdo do Vídeo" ELSE "Video Content"

\* line 274
ExpectedCount(tr) == Max(5, tr.duration \div 150)

\* line 275: len(timestamps) < expected_count * 0.5
TooFew(ts, tr) == 2 * Len(ts) < ExpectedCount(tr)

Abs(x) == IF x < 0 THEN 0 - x ELSE x

\* the test of line 293 with <= in place of <
FarFromAllOffByOne(time, existing_times) ==
    ~\E t \in existing_times : Abs(time - t) <= 30

\* line 293
FarFromAll(time, existing_times) ==
    ~\E t \in existing_times : Abs(time - t) < 30

RECURSIVE KeepFar(_, _)
KeepFar(heur, existing_times) ==
    IF heur = <<>> THEN <<>>
    ELSE (IF FarFromAll(Head(heur).time, existing_times) THEN <<Head(heur)>> ELSE <<>>)
         \o KeepFar(Tail(heur), existing_times)

\* lines 289-297
MergeTimestamps(ts, heur) ==
    LET existing_times == { ts[k].time : k \in 1..Len(ts) }
    IN  SortByTime(ts \o KeepFar(heur, existing_times))

(***************************************************************************)
(* The validators as calls: one action for the loop, one for the post-pass *)
(***************************************************************************)
ApiTranscripts ==
    { [language |-> "pt", segments |-> <<>>],
      [language |-> "pt",
       segments |-> <<[text |-> "xyz", start |-> 0, duration |-> 60],
                      [text |-> "erro", start |-> 60, duration |-> 40]>>] }

\* candidates of the backend's model: {time, title, confidence}
ApiCandidates ==
    { Timestamp(0, "Intro", 90), Timestamp(8, "A", 90), Timestamp(20, "B", 90),
      Timestamp(40, "C", 90), Timestamp(70, "D", 95), Timestamp(70, " ", 90),
      Timestamp(45, "E", 50), Timestamp(-1, "F", 90), Timestamp(200, "G", 90) }

Num(n) == [kind |-> "num", val |-> n]
RawEntry(time, title) == [type |-> "dict", time |-> time, title |-> title]

\* entries of the "timestamps" array of a model response
RawEntries ==
    { RawEntry(Num(0), "Intro"), RawEntry(Num(0), "Setup"),
      RawEntry(Num(7), "B"), RawEntry(Num(30), " Setup "),
      RawEntry(Num(50), "C"), RawEntry(Num(-5), "D"), RawEntry(Num(200), "E"),
      RawEntry([kind |-> "missing"], "F"), RawEntry([kind |-> "bad"], "G"),
      RawEntry(Num(60), ""), [type |-> "other"] }

Responses ==
    { [kind |-> "no_json"], [kind |-> "bad_json"] }
    \cup { [kind |-> "json", timestamps |-> raw] : raw \in SeqsUpTo(RawEntries, MaxCands) }

CoreTranscript100 ==
    [language |-> "pt",
     segments |-> <<[start |-> 0, end |-> 60, text |-> "xyz"],
                    [start |-> 60, end |-> 100, text |-> "erro"]>>,
     duration |-> 100]

ValidateLoopStep ==
    /\ UNCHANGED GeneratorVars
    /\ pc = "validate_timestamps"
    /\ validated' = ValidateLoop(timestamps, 1, TotalDuration(transcript),
                                 DefaultMinConfidence, min_duration, <<>>,
                                 -min_duration)
    /\ pc' = "validate_post"
    /\ UNCHANGED <<InputVars, timestamps, response, result,
                   AnalyzerVars>>

ValidatePostStep ==
    /\ UNCHANGED GeneratorVars
    /\ pc = "validate_post"
    /\ result' = ValidatePost(validated, transcript)
    /\ pc' = "done"
    /\ UNCHANGED <<InputVars, timestamps, response, validated,
                   AnalyzerVars>>

\* lines 332-347: return the default entry, or go on to the loop
ParseExtractStep ==
    /\ UNCHANGED GeneratorVars
    /\ pc = "parse_timestamps_from_response"
    /\ IF ParseFallsBack(response)
       THEN pc' = "done" /\ result' = <<DefaultEntry>>
       ELSE pc' = "parse_loop" /\ result' = result
    /\ UNCHANGED <<InputVars, timestamps, response, validated,
                   AnalyzerVars>>

ParseLoopStep ==
    /\ UNCHANGED GeneratorVars
    /\ pc = "parse_loop"
    /\ validated' = ParseLoop(response.timestamps, 1, transcript.duration,
                              min_duration, <<>>, -min_duration)
    /\ pc' = "parse_post"
    /\ UNCHANGED <<InputVars, timestamps, response, result,
                   AnalyzerVars>>

ParsePostStep ==
    /\ UNCHANGED GeneratorVars
    /\ pc = "parse_post"
    /\ result' \in SortOutcomes(WithIntro(validated))
    /\ pc' = "done"
    /\ UNCHANGED <<InputVars, timestamps, response, validated,
                   AnalyzerVars>>

InitValidateTimestamps ==
    /\ call = "validate_timestamps"
    /\ pc = "validate_timestamps"
    /\ transcript \in ApiTranscripts
    /\ min_duration = 30
    /\ timestamps \in SeqsUpTo(ApiCandidates, MaxCands)
    /\ response = NoResponse
    /\ validated = <<>>
    /\ result = <<>>
    /\ video_title = ""
    /\ use_heuristics_fallback = TRUE
    /\ AnalyzerIdle
    /\ GeneratorIdle

InitParse ==
    /\ call = "parse_timestamps_from_response"
    /\ pc = "parse_timestamps_from_response"
    /\ transcript = CoreTranscript100
    /\ min_duration = 30
    /\ response \in Responses
    /\ timestamps = <<>>
    /\ validated = <<>>
    /\ result = <<>>
    /\ video_title = ""
    /\ use_heuristics_fallback = TRUE
    /\ AnalyzerIdle
    /\ GeneratorIdle

InitValidators == InitValidateTimestamps \/ InitParse

NextValidators ==
    \/ ValidateLoopStep
    \/ ValidatePostStep
    \/ ParseExtractStep
    \/ ParseLoopStep
    \/ ParsePostStep

SpecValidators == InitValidators /\ [][NextValidators]_vars

(***************************************************************************)
(* The validators on candidates whose time may be NaN.                     *)
(***************************************************************************)
FloatCandidates ==
    { Timestamp(0, "Intro", 90), Timestamp(40, "C", 90), Timestamp(45, "E", 90),
      Timestamp(-1, "F", 90), Timestamp(200, "G", 90), Timestamp(NaN, "N", 90) }

FloatEntries ==
    { RawEntry(Num(0), "Intro"), RawEntry(Num(50), "C"), RawEntry(Num(-5), "D"),
      RawEntry(Num(200), "E"), RawEntry([kind |-> "nan"], "N") }

FloatResponses ==
    { [kind |-> "no_json"] }
    \cup { [kind |-> "json", timestamps |-> raw] : raw \in SeqsUpTo(FloatEntries, MaxCands) }

InitFloatTimes ==
    /\ call \in {"validate_timestamps", "parse_timestamps_from_response"}
    /\ pc = call
    /\ transcript = IF call = "validate_timestamps"
                    THEN [language |-> "pt",
                          segments |-> <<[text |-> "xyz", start |-> 0, duration |-> 60],
                                         [text |-> "erro", start |-> 60, duration |-> 40]>>]
                    ELSE CoreTranscript100
    /\ min_duration = 30
    /\ IF call = "validate_timestamps"
       THEN timestamps \in SeqsUpTo(FloatCandidates, MaxCands) /\ response = NoResponse
       ELSE timestamps = <<>> /\ response \in FloatResponses
    /\ validated = <<>>
    /\ result = <<>>
    /\ video_title = ""
    /\ use_heuristics_fallback = TRUE
    /\ AnalyzerIdle
    /\ GeneratorIdle

SpecFloatTimes == InitFloatTimes /\ [][NextValidators]_vars

(***************************************************************************)
(* generate_timestamps and the two heuristic entry points as calls         *)
(***************************************************************************)
Shape(d, t) == [gap |-> 0, dur |-> d, text |-> t]

SmartShapes ==
    { Shape(d, t) : d \in {0, 14, 130}, t \in {"xyz", "erro", "python"} }
    \cup { Shape(130, "então") }

SmartTranscripts == { MakeTranscript(s) : s \in SeqsUpTo(SmartShapes, MaxSmartSegs) }

English(tr) == [tr EXCEPT !.language = "en"]

\* the transcripts generate_timestamps is run on: none, of zero length, the
\* 19 s one, 100 s, 390 s and 2000 s ones
GenerateTranscripts ==
    { MakeTranscript(<<>>), English(MakeTranscript(<<>>)),
      MakeTranscript(<<Shape(0, "xyz")>>),
      English(MakeTranscript(<<Shape(0, "xyz"), Shape(0, "agora")>>)),
      MakeTranscript(<<Shape(5, "xyz"), Shape(14, "xyz")>>),
      CoreTranscript100,
      MakeTranscript(<<Shape(130, "xyz"), Shape(130, "erro"), Shape(130, "python")>>),
      MakeTranscript(<<Shape(1000, "xyz"), Shape(1000, "erro")>>) }

\* what get_available_models can return
ModelLists == { <<>>, <<"llama3.2">>, <<"deepseek-r1">> }

GenerateEntries ==
    { RawEntry(Num(0), "Introdução"), RawEntry(Num(40), "Erros comuns"),
      RawEntry(Num(40), "Setup"), RawEntry(Num(70), "Setup") }

\* what the request of lines 238-258 can end in: a timeout, another exception
\* of requests.post, a status other than 200, a body response.json() rejects,
\* or a response text
RequestFailures == {"timeout", "connection_error", "status_not_200", "body_not_json"}
RequestOutcomes ==
    { [kind |-> k] : k \in RequestFailures \cup {"no_json", "bad_json"} }
    \cup { [kind |-> "json", timestamps |-> raw] : raw \in SeqsUpTo(GenerateEntries, MaxCands) }

CallVars == <<target_count, break_points, clusters, AnalyzerLocals, validated>>

\* _create_content_windows, lines 119-152, on the list objects: the [] of lines
\* 120 and 140, the append of line 124 and the copy() of line 131
RECURSIVE WindowListsFrom(_, _, _, _, _, _)
WindowListsFrom(segs, k, window_size, heap, current_segments, window_start) ==
    IF k > Len(segs) THEN heap
    ELSE LET segment == segs[k]
             appended == Extend(heap, current_segments, <<segment>>)
         IN  IF segment.end - window_start >= window_size
             THEN LET copied == Store(appended, NewList(appended),
                                      appended[current_segments])
                      fresh == NewList(copied)
                  IN  WindowListsFrom(segs, k + 1, window_size,
                                      Store(copied, fresh, <<>>), fresh, segment.end)
             ELSE WindowListsFrom(segs, k + 1, window_size, appended,
                                  current_segments, window_start)

\* generate, lines 92-98: nothing is built for a transcript without segments
WindowLists(tr, window_size, heap) ==
    IF tr.segments = <<>> THEN heap
    ELSE LET current_segments == NewList(heap)
         IN  WindowListsFrom(tr.segments, 1, window_size,
                             Store(heap, current_segments, <<>>),
                             current_segments, 0)

\* line 235
RequestTimeout(tr) == Max(180, tr.duration \div 10)

\* a failed request that is sent again
AfterRequestRetrying(outcome) ==
    IF outcome.kind \in RequestFailures THEN "request" ELSE "parse"

\* lines 254-258 and the except clauses: where the call goes on after the
\* request
AfterRequest(outcome) ==
    IF outcome.kind \in RequestFailures THEN "except" ELSE "parse"

\* a Timeout handler that raises whatever use_heuristics_fallback is
FallsBackUnlessTimeout(kind, fallback) == fallback /\ kind # "timeout"

\* lines 302-303 and 308-309: both handlers test use_heuristics_fallback
FallsBackOn(kind, fallback) == fallback

\* lines 153-175
CheckOllama ==
    /\ pc = "generate_timestamps"
    /\ \E available \in BOOLEAN :
         /\ ollama_available' = available
         /\ IF ~available /\ use_heuristics_fallback
            THEN LET smart == GenerateSmartTimestamps(transcript, video_title, min_duration)
                 IN  /\ pc' = "done"
                     /\ raised' = IF smart.raised THEN "ZeroDivisionError" ELSE ""
                     /\ result' = ToTimestamps(smart.value, 80)
            ELSE IF ~available
            THEN pc' = "done" /\ raised' = "ValueError" /\ result' = result
            ELSE pc' = "get_models" /\ raised' = raised /\ result' = result
    /\ UNCHANGED <<InputVars, available_models, timestamps, heuristic_timestamps,
                   response, requests, CallVars, ListVars>>

\* lines 177-193
GetModels ==
    /\ pc = "get_models"
    /\ \E models \in ModelLists :
         /\ available_models' = models
         /\ IF models = <<>>
            THEN pc' = "done" /\ raised' = "ValueError" /\ result' = result
            ELSE IF transcript.segments = <<>>
            THEN /\ pc' = "done" /\ raised' = raised
                 /\ result' = <<Timestamp(0, DefaultTitle(transcript), 50)>>
            ELSE pc' = "request" /\ raised' = raised /\ result' = result
    /\ UNCHANGED <<InputVars, ollama_available, timestamps, heuristic_timestamps,
                   response, requests, CallVars, ListVars>>

\* lines 237-258: the request and what comes back
PostRequest ==
    /\ pc = "request"
    /\ \E outcome \in RequestOutcomes :
         /\ response' = outcome
         /\ pc' = AfterRequest(outcome)
    /\ requests' = Append(requests, [timeout |-> RequestTimeout(transcript)])
    /\ UNCHANGED <<InputVars, ollama_available, available_models, timestamps,
                   heuristic_timestamps, result, raised, CallVars, ListVars>>

\* lines 269-300 up to the merge
ParseResponse ==
    /\ pc = "parse"
    /\ LET ts == ParseTimestampsFromResponse(response, transcript.duration, min_duration)
           smart == GenerateSmartTimestamps(transcript, video_title, min_duration)
       IN  /\ timestamps' = ts
           /\ IF TooFew(ts, transcript) /\ use_heuristics_fallback
              THEN IF smart.raised
                   THEN /\ pc' = "except"
                        /\ UNCHANGED <<heuristic_timestamps, result>>
                   ELSE /\ pc' = "merge"
                        /\ heuristic_timestamps' = ToTimestamps(smart.value, 70)
                        /\ result' = result
              ELSE /\ pc' = "done"
                   /\ result' = ts
                   /\ heuristic_timestamps' = heuristic_timestamps
    /\ UNCHANGED <<InputVars, ollama_available, available_models, response,
                   raised, requests, CallVars, ListVars>>

\* lines 289-300
MergeStep ==
    /\ pc = "merge"
    /\ result' = MergeTimestamps(timestamps, heuristic_timestamps)
    /\ pc' = "done"
    /\ UNCHANGED <<InputVars, ollama_available, available_models, timestamps,
                   heuristic_timestamps, response, raised, requests, CallVars, ListVars>>

\* lines 302-313: both except clauses
ExceptStep ==
    /\ pc = "except"
    /\ IF FallsBackOn(response.kind, use_heuristics_fallback)
       THEN LET h == GenerateTimestampsHeuristic(transcript, min_duration)
            IN  /\ pc' = IF h.hangs THEN "hang" ELSE "done"
                /\ result' = h.value
                /\ raised' = raised
       ELSE pc' = "done" /\ raised' = "ValueError" /\ result' = result
    /\ UNCHANGED <<InputVars, ollama_available, available_models, timestamps,
                   heuristic_timestamps, response, requests, CallVars, ListVars>>

\* generate_smart_timestamps called on its own
SmartCall ==
    /\ pc = "generate_smart_timestamps"
    /\ LET smart == GenerateSmartTimestamps(transcript, video_title, min_duration)
       IN  /\ raised' = IF smart.raised THEN "ZeroDivisionError" ELSE ""
           /\ result' = smart.value
    /\ pc' = "done"
    /\ lists' = WindowLists(transcript, WindowSize, lists)
    /\ UNCHANGED <<InputVars, ollama_available, available_models, timestamps,
                   heuristic_timestamps, response, requests, CallVars, cluster_lists>>

\* generate_timestamps_heuristic called on its own
HeuristicCall ==
    /\ pc = "generate_timestamps_heuristic"
    /\ LET h == GenerateTimestampsHeuristic(transcript, min_duration)
       IN  /\ pc' = IF h.hangs THEN "hang" ELSE "done"
           /\ result' = h.value
    /\ UNCHANGED <<InputVars, ollama_available, available_models, timestamps,
                   heuristic_timestamps, response, raised, requests, CallVars, ListVars>>

Init ==
    /\ call \in {"generate_timestamps", "generate_smart_timestamps",
                 "generate_timestamps_heuristic"}
    /\ pc = call
    /\ transcript \in IF call = "generate_timestamps" THEN GenerateTranscripts
                      ELSE SmartTranscripts
    /\ video_title \in IF call = "generate_timestamps_heuristic" THEN {""}
                       ELSE {"Vídeo", "Dev Junior"}
    /\ min_duration \in {30, 60}
    /\ use_heuristics_fallback \in IF call = "generate_timestamps" THEN BOOLEAN
                                   ELSE {TRUE}
    /\ timestamps = <<>>
    /\ response = NoResponse
    /\ validated = <<>>
    /\ result = <<>>
    /\ AnalyzerIdle
    /\ GeneratorIdle

Next ==
    \/ CheckOllama
    \/ GetModels
    \/ PostRequest
    \/ ParseResponse
    \/ MergeStep
    \/ ExceptStep
    \/ SmartCall
    \/ HeuristicCall

Spec == Init /\ [][Next]_vars

(***************************************************************************)
(* generate_smart_timestamps on long transcripts: a segment of LongDuration*)
(* gives a target of 22 timestamps or more (line 263).  For every sum of   *)
(* the durations below, windows[-1].end / target_count is 180 or has an    *)
(* exact float product, so int(i * interval) is (i * end) \div target.     *)
(***************************************************************************)
MaxLongSegs == 2

LongDuration == 3960

LongShapes ==
    { Shape(LongDuration, t) : t \in {"xyz", "erro"} }
    \cup { Shape(130, "xyz"), Shape(130, "python"), Shape(14, "xyz") }

LongTranscripts == { MakeTranscript(s) : s \in SeqsUpTo(LongShapes, MaxLongSegs) }

InitSmartLong ==
    /\ call = "generate_smart_timestamps"
    /\ pc = call
    /\ transcript \in LongTranscripts
    /\ video_title \in {"Vídeo", "Dev Junior"}
    /\ min_duration \in {30, 60}
    /\ use_heuristics_fallback = TRUE
    /\ timestamps = <<>>
    /\ response = NoResponse
    /\ validated = <<>>
    /\ result = <<>>
    /\ AnalyzerIdle
    /\ GeneratorIdle

NextSmartLong == SmartCall

SpecSmartLong == InitSmartLong /\ [][NextSmartLong]_vars

(***************************************************************************)
(* The stages that handle the transcript's segment list, each followed on  *)
(* the list objects: analyze step by step and generate_smart_timestamps.   *)
(* The other calls leave lists as it is: their list objects are not        *)
(* followed.                                                               *)
(***************************************************************************)
InitFrame == InitAnalyze \/ (Init /\ call = "generate_smart_timestamps")

NextFrame == NextAnalyze \/ SmartCall

SpecFrame == InitFrame /\ [][NextFrame]_vars

(***************************************************************************)
(* The merge of lines 289-297 on its own, on two lists drawn freely: a     *)
(* model-origin list and a heuristic-origin list, each sorted by time.     *)
(***************************************************************************)
ModelTimes == {0, 35, 100, 160}
HeuristicTimes == {0, 5, 65, 130, 190}

ListAt(times, title, confidence) ==
    LET sorted == SortedList(times)
    IN  [k \in 1..Len(sorted) |-> Timestamp(sorted[k], title, confidence)]

InitMerge ==
    /\ call = "generate_timestamps"
    /\ pc = "merge"
    /\ transcript = CoreTranscript100
    /\ video_title = "Vídeo"
    /\ min_duration = 30
    /\ use_heuristics_fallback = TRUE
    /\ ollama_available = TRUE
    /\ available_models = <<"llama3.2">>
    /\ response = NoResponse
    /\ requests = <<[timeout |-> RequestTimeout(transcript)]>>
    /\ timestamps \in { ListAt(t, "Setup", 100) : t \in SUBSET ModelTimes }
    /\ heuristic_timestamps \in
         { ListAt(t, "Erros comuns", 70) : t \in SUBSET HeuristicTimes }
    /\ validated = <<>>
    /\ result = <<>>
    /\ raised = ""
    /\ AnalyzerIdle

NextMerge == MergeStep

SpecMerge == InitMerge /\ [][NextMerge]_vars

(***************************************************************************)
(* Claims about the validators.                                            *)
(***************************************************************************)
StrictlyIncreasing(lst) ==
    \A k \in 1..(Len(lst) - 1) : lst[k].time < lst[k + 1].time

\* every pair of neighbours from the pair (from, from + 1) on is md apart
SpacedFrom(lst, from, md) ==
    \A k \in from..(Len(lst) - 1) : lst[k + 1].time - lst[k].time >= md

\* C4: the list returned by parse_timestamps_from_response has strictly
\* increasing times, and every pair of neighbours after the first pair is at
\* least min_duration apart.
C4_ParsedListSpaced ==
    (call = "parse_timestamps_from_response" /\ pc = "done")
        => StrictlyIncreasing(result) /\ SpacedFrom(result, 2, min_duration)

EarlyThreshold == IF call = "validate_timestamps" THEN 10 ELSE 5
SyntheticHead(e) ==
    /\ e.time = 0 /\ e.confidence = 100
    /\ e.title = IF call = "validate_timestamps" THEN "Introdução" ELSE "Introduction"

C2_NeverRaises ==
    (call = "generate_timestamps" /\ pc = "done")
        => raised = "" /\ result # <<>>

\* C3: in every list returned by generate_smart_timestamps every pair of
\* neighbours after the first pair is at least min_duration apart.
C3_SmartListSpaced ==
    (call = "generate_smart_timestamps" /\ pc = "done" /\ raised = "")
        => SpacedFrom(result, 2, min_duration)

UniqueTitleStrings(lst) ==
    \A i, j \in 1..Len(lst) : i # j => lst[i].title # lst[j].title

\* C6: in every list returned by generate_timestamps, on the heuristic-only,
\* the model-only and the merged path alike, no two entries share a title.
C6_TitlesUnique ==
    (call = "generate_timestamps" /\ pc = "done" /\ raised = "")
        => UniqueTitleStrings(result)

DefaultTitles == {"Início do Vídeo", "Conteúdo do Vídeo", "Video Content"}

\* C7: given a transcript with zero segments, each of the three entry points,
\* on whichever path it takes, ends by returning exactly one entry, with
\* time 0, a default title and a confidence of at most 1.0.
C7_EmptyTranscriptOneEntry ==
    (transcript.segments = <<>> /\ pc = "done")
        => /\ raised = ""
           /\ Len(result) = 1
           /\ result[1].time = 0
           /\ result[1].title \in DefaultTitles
           /\ "confidence" \in DOMAIN result[1] => result[1].confidence <= 100

\* no time of the model-origin list is less than 30 s from a time of the
\* heuristic-origin list
NoCrossListNeighbours ==
    \A a \in 1..Len(timestamps), b \in 1..Len(heuristic_timestamps) :
        Abs(heuristic_timestamps[b].time - timestamps[a].time) >= 30

Entries(lst) == { lst[k] : k \in 1..Len(lst) }

\* C8: when no model time and heuristic time are within 30 s of each other,
\* the merged list holds every entry of both lists, nothing else, and is
\* sorted ascending by time.
C8_MergeKeepsAll ==
    [][(pc = "merge" /\ pc' = "done" /\ NoCrossListNeighbours)
         => /\ Len(result') = Len(timestamps) + Len(heuristic_timestamps)
            /\ Entries(result') = Entries(timestamps) \cup Entries(heuristic_timestamps)
            /\ \A k \in 1..(Len(result') - 1) :
                 result'[k].time <= result'[k + 1].time]_vars

\* C8 witness: a merge of two model entries with three heuristic entries that
\* lie between and after them, one exactly 30 s from a model entry
C8_Witness ==
    /\ pc = "done" /\ NoCrossListNeighbours
    /\ Len(timestamps) = 2 /\ Len(heuristic_timestamps) = 3
    /\ \E a \in 1..2, b \in 1..3 :
         heuristic_timestamps[b].time - timestamps[a].time = 30
    /\ result[1] = timestamps[1] /\ result[2] = heuristic_timestamps[1]
    /\ Len(result) = 5

(***************************************************************************)
(* Claims about the parser's fallbacks and the merge trigger.              *)
(***************************************************************************)
\* the response has no JSON object, one that does not parse, or one whose
\* "timestamps" is missing or empty
NoUsableArray ==
    \/ response.kind \in {"no_json", "bad_json"}
    \/ response.kind = "json" /\ response.timestamps = <<>>

\* C11: parse_timestamps_from_response returns exactly one entry, the default
\* one at time 0 ("Video Content", confidence 0.5), whenever the response
\* holds no JSON object, an object that does not parse, or an object whose
\* timestamps array is missing or empty.
C11_FallbackSingleDefault ==
    (call = "parse_timestamps_from_response" /\ pc = "done" /\ NoUsableArray)
        => /\ Len(result) = 1
           /\ result[1] = Timestamp(0, "Video Content", 50)

\* C11 witness: the parser has returned on an object with an empty array
C11_Witness ==
    /\ call = "parse_timestamps_from_response" /\ pc = "done"
    /\ response.kind = "json" /\ response.timestamps = <<>>
    /\ Len(result) = 1 /\ result[1].time = 0 /\ result[1].confidence = 50

\* C12: with the fallback enabled, the merge with the heuristic entries runs
\* exactly when the parsed model list has fewer entries than half of
\* max(5, floor(duration / 150)); otherwise that list is returned as it is.
C12_MergeTrigger ==
    [][(call = "generate_timestamps" /\ pc = "parse" /\ use_heuristics_fallback)
         => IF 2 * Len(timestamps') < Max(5, transcript.duration \div 150)
            THEN pc' = "merge"
            ELSE pc' = "done" /\ result' = timestamps']_vars

(***************************************************************************)
(* Claims about the request to the model service.                          *)
(***************************************************************************)
\* C13: when the request, sent with a timeout of max(180, floor(duration/10))
\* seconds, times out or fails in another way and the fallback is enabled,
\* generate_timestamps returns what generate_timestamps_heuristic makes of
\* the transcript, and no model-derived entry is in it.
C13_FailureFallsBack ==
    (call = "generate_timestamps" /\ pc = "done" /\ use_heuristics_fallback
     /\ response.kind \in {"timeout", "connection_error", "status_not_200",
                           "body_not_json"})
        => /\ raised = ""
           /\ requests[1].timeout =
                IF transcript.duration \div 10 > 180
                THEN transcript.duration \div 10 ELSE 180
           /\ result = GenerateTimestampsHeuristic(transcript, min_duration).value
           /\ timestamps = <<>>
           /\ \A k \in 1..Len(result) : result[k].confidence \in {70, 80}

\* C13 witness: the request for the 2000 s transcript, sent with a timeout of
\* 200 s, has timed out and the heuristic list was returned
C13_Witness ==
    /\ call = "generate_timestamps" /\ pc = "done" /\ use_heuristics_fallback
    /\ response.kind = "timeout"
    /\ requests = <<[timeout |-> 200]>>
    /\ Len(result) > 8 /\ result[1].confidence = 80

\* C17: within one call of generate_timestamps the generation request is
\* sent at most once, also after it failed, timed out or was answered with
\* a status other than 200.
C17_AtMostOneRequest ==
    call = "generate_timestamps" => Len(requests) <= 1

\* C17 witness: the call has returned the heuristic list after a request that
\* was answered with a status other than 200, having sent that one request
C17_Witness ==
    /\ call = "generate_timestamps" /\ pc = "done"
    /\ response.kind = "status_not_200"
    /\ Len(requests) = 1 /\ result # <<>>

(***************************************************************************)
(* Claims about the break points.                                          *)
(***************************************************************************)
\* the segment with the Python index i follows a pause of more than 2 s
PauseBefore(segs, i) == segs[i + 1].start - segs[i].end > 2

\* neither the pause rule nor the lexical rule marks the segment i
Unmarked(tr, i) ==
    /\ ~PauseBefore(tr.segments, i)
    /\ ~MatchesTransition(tr.segments[i + 1].text, tr.language)

\* no pause of more than 2 s and no transition word in the transcript
NoPauseNoTransition(tr) == \A i \in 1..(Len(tr.segments) - 1) : Unmarked(tr, i)

BreakPointsFound == call = "analyze" /\ pc \in {"cluster_segments", "shrink", "grow", "done"}
                    /\ transcript.segments # <<>>

\* C14: for every 600 s transcript without a pause over 2 s and without a
\* transition word, analyze returns at least 5 clusters.
C14_AtLeastFiveClusters ==
    (call = "analyze" /\ pc = "done" /\ transcript.duration = 600
     /\ NoPauseNoTransition(transcript))
        => Len(clusters) >= 5

\* C15: in a transcript longer than 120 s without pauses and transition
\* words, every break after index 0 is a forced one and starts at most 120 s
\* after the start of the break segment before it; so the first one starts
\* at or before the 120 s mark.
C15_ForcedBreakWithin120 ==
    (BreakPointsFound /\ transcript.duration > 120 /\ NoPauseNoTransition(transcript))
        => \A k \in 1..(Len(break_points) - 1) :
             transcript.segments[break_points[k + 1] + 1].start
               - transcript.segments[break_points[k] + 1].start <= 120

\* C16: for a transcript with at least one segment _find_break_points returns
\* a strictly ascending list of segment indices that starts with 0.
C16_BreakPointsAscending ==
    BreakPointsFound
        => /\ break_points # <<>>
           /\ break_points[1] = 0
           /\ \A k \in 1..Len(break_points) :
                break_points[k] \in 0..(Len(transcript.segments) - 1)
           /\ \A k \in 1..(Len(break_points) - 1) :
                break_points[k] < break_points[k + 1]

\* C16 witness: three break points were found, the second after a pause and
\* the third by a transition word or the lapse of time
C16_Witness ==
    /\ BreakPointsFound /\ pc = "cluster_segments"
    /\ Len(break_points) = 3
    /\ PauseBefore(transcript.segments, break_points[2])
    /\ ~PauseBefore(transcript.segments, break_points[3])

\* C20: every segment i > 0 that neither the pause rule nor the lexical rule
\* marks, and that starts more than 120 s after the start of the most recent
\* break segment, is a break point, whether or not segment i - 1 is one.
C20_ForcedAfter120 ==
    BreakPointsFound
        => \A i \in 1..(Len(transcript.segments) - 1) :
             LET earlier == { break_points[k] : k \in 1..Len(break_points) } \cap 0..(i - 1)
                 last == SetMax(earlier)
             IN  (Unmarked(transcript, i)
                  /\ transcript.segments[i + 1].start
                       - transcript.segments[last + 1].start > 120)
                    => \E k \in 1..Len(break_points) : break_points[k] = i

(***************************************************************************)
(* Claims about the range of the returned times.                           *)
(***************************************************************************)
\* the duration a call measures times against: validate_timestamps computes it
\* from the last segment, the others take transcript.duration
RangeDuration ==
    IF call = "validate_timestamps" THEN TotalDuration(transcript)
    ELSE transcript.duration

InRange(time, duration) == ~IsNaN(time) /\ 0 <= time /\ time <= duration

\* C19: every entry of every list returned by validate_timestamps,
\* parse_timestamps_from_response, generate_smart_timestamps and
\* generate_timestamps has 0 <= time <= transcript duration.
C19_TimesInRange ==
    (/\ call \in {"validate_timestamps", "parse_timestamps_from_response",
                  "generate_smart_timestamps", "generate_timestamps"}
     /\ pc = "done" /\ raised = "")
        => \A k \in 1..Len(result) : InRange(result[k].time, RangeDuration)

\* the same for the entries that are numbers: none is below 0 or above the
\* duration
NumbersInRange ==
    (pc = "done" /\ raised = "")
        => \A k \in 1..Len(result) :
             ~IsNaN(result[k].time) => InRange(result[k].time, RangeDuration)

(***************************************************************************)
(* Claims about the input transcript.                                      *)
(***************************************************************************)
\* C18: no stage changes the transcript's segment list: after
\* _find_break_points, _cluster_segments, every merge and split of
\* _optimize_cluster_count and the smart generator's windows, the list object
\* transcript.segments holds the segments it was handed with; no cluster's
\* .segments is that list object, and each cluster's list holds exactly the
\* cluster's segments, so the extends of the merges reach the clusters' own
\* lists only.
C18_TranscriptUnchanged ==
    /\ lists[TranscriptList] = transcript.segments
    /\ \A k \in 1..Len(cluster_lists) : cluster_lists[k] # TranscriptList
    /\ Len(cluster_lists) = Len(clusters)
    /\ \A k \in 1..Len(clusters) : lists[cluster_lists[k]] = clusters[k].segments

\* C18 witness: analyze has returned after a short range was appended to the
\* previous cluster or two clusters were merged (a cluster's list is longer
\* than any slice built for it would be: more list objects than clusters were
\* built) and the shrink loop has merged at least once
C18_Witness ==
    /\ call = "analyze" /\ pc = "done"
    /\ min_duration_cluster # None
    /\ Len(clusters) >= 2
    /\ Len(lists) > Len(clusters) + 2
    /\ \E k \in 1..Len(clusters) : Len(lists[cluster_lists[k]]) >= 3

(***************************************************************************)
(* Claims about _optimize_cluster_count.                                   *)
(***************************************************************************)
\* the lowest index among the clusters of smallest duration
LowestShortest(cl) ==
    CHOOSE i \in 0..(Len(cl) - 1) :
        /\ \A j \in 0..(Len(cl) - 1) : Duration(cl[i + 1]) <= Duration(cl[j + 1])
        /\ \A j \in 0..(i - 1) : Duration(cl[j + 1]) > Duration(cl[i + 1])

\* the list with the clusters a and a + 1 made one: it starts where a starts,
\* ends where a + 1 ends and holds the segments of both, in order
Merged(cl, a) ==
    Slice(cl, 0, a)
    \o <<[start |-> cl[a + 1].start, end |-> cl[a + 2].end,
         segments |-> cl[a + 1].segments \o cl[a + 2].segments]>>
    \o Slice(cl, a + 2, Len(cl))

\* the left cluster of the pair merged for the cluster i: the first cluster
\* goes with the next, the last with the previous, one in between with the
\* shorter neighbour and, on equal durations, with the previous (ties_previous)
\* or the next one
MergedPair(cl, i, ties_previous) ==
    IF i = 0 THEN 0
    ELSE IF i = Len(cl) - 1 THEN i - 1
    ELSE IF Duration(cl[i]) < Duration(cl[i + 2]) THEN i - 1
    ELSE IF Duration(cl[i]) > Duration(cl[i + 2]) THEN i
    ELSE IF ties_previous THEN i - 1 ELSE i

ShrinkStep == call = "analyze" /\ pc = "shrink" /\ ShrinkCondition(clusters, target_count)

\* C21 as stated: each shrink iteration merges the cluster of smallest
\* duration (lowest index among equals) into its shorter neighbour, into the
\* previous one when both neighbours have equal duration; the first cluster
\* merges into the next and the last into the previous.
C21_TiesFavourPrevious ==
    [][ShrinkStep
         => LET i == LowestShortest(clusters)
            IN  /\ min_duration_cluster' = i
                /\ clusters' = Merged(clusters, MergedPair(clusters, i, TRUE))]_vars

\* C21 amended: the same, with the cluster merged into the NEXT neighbour when
\* both neighbours have equal duration.
C21_TiesFavourNext ==
    [][ShrinkStep
         => LET i == LowestShortest(clusters)
            IN  /\ min_duration_cluster' = i
                /\ clusters' = Merged(clusters, MergedPair(clusters, i, FALSE))]_vars

\* C21 witness: the shrink loop has merged the cluster 1, a single segment,
\* into the next one although the previous cluster is exactly as long as that
\* next one was
C21_Witness ==
    /\ call = "analyze" /\ pc \in {"shrink", "grow"}
    /\ min_duration_cluster = 1
    /\ Len(clusters) >= 2
    /\ LET merged == clusters[2].segments
       IN  /\ Len(merged) = 2
           /\ merged[1].end - merged[1].start < Duration(clusters[1])
           /\ merged[2].end - merged[2].start = Duration(clusters[1])
           /\ Len(clusters[1].segments) = 1
           /\ merged[2].start - merged[1].end > 2

\* the clusters _optimize_cluster_count was called with
InitialClusters == ClusterSegments(transcript, break_points, min_duration)

\* C22: called with more clusters than the target T >= 1, the shrink loop
\* removes exactly one cluster in each iteration and the function returns
\* exactly T clusters; the grow loop then changes nothing (it runs no
\* iteration: the list it is handed is the list returned).
C22_ShrinkReachesTarget ==
    [][/\ ShrinkStep => Len(clusters') = Len(clusters) - 1
       /\ (/\ call = "analyze" /\ pc # "done" /\ pc' = "done"
           /\ target_count >= 1
           /\ Len(InitialClusters) > target_count)
            => /\ pc = "grow"
               /\ clusters' = clusters
               /\ Len(clusters') = target_count
               /\ max_duration_cluster' = None]_vars

\* C22 witness: analyze has returned exactly the target number of clusters
\* after at least two merges
C22_Witness ==
    /\ call = "analyze" /\ pc = "done"
    /\ min_duration_cluster # None
    /\ Len(InitialClusters) >= target_count + 2
    /\ Len(clusters) = target_count

\* cl2 is cl with its cluster i replaced by two clusters that share its
\* segments, in order, between its start and its end
SplitsAt(cl, cl2, i) ==
    /\ Len(cl2) = Len(cl) + 1
    /\ Slice(cl2, 0, i) = Slice(cl, 0, i)
    /\ Slice(cl2, i + 2, Len(cl2)) = Slice(cl, i + 1, Len(cl))
    /\ cl2[i + 1].segments # <<>> /\ cl2[i + 2].segments # <<>>
    /\ cl2[i + 1].segments \o cl2[i + 2].segments = cl[i + 1].segments
    /\ cl2[i + 1].start = cl[i + 1].start
    /\ cl2[i + 2].end = cl[i + 1].end

\* C23: when _optimize_cluster_count returns after a call with fewer than
\* 0.7 * T clusters, the returned count is at least 0.7 * T or no returned
\* cluster is longer than 2 * min_duration; and each split of the grow loop
\* replaces one cluster by two, raising the count by exactly one.
C23_GrowUntilDone ==
    [][/\ (/\ call = "analyze" /\ pc = "grow" /\ pc' = "done"
           /\ 10 * Len(InitialClusters) < 7 * target_count)
            => \/ 10 * Len(clusters') >= 7 * target_count
               \/ \A k \in 1..Len(clusters') :
                    Duration(clusters'[k]) <= 2 * min_duration
       /\ (call = "analyze" /\ pc = "grow" /\ clusters' # clusters)
            => \E i \in 0..(Len(clusters) - 1) : SplitsAt(clusters, clusters', i)]_vars

\* C23 witness: called with fewer than 0.7 * T clusters, analyze has returned
\* after at least one split
C23_Witness ==
    /\ call = "analyze" /\ pc = "done"
    /\ 10 * Len(InitialClusters) < 7 * target_count
    /\ max_duration_cluster # None
    /\ Len(clusters) > Len(InitialClusters)

(***************************************************************************)
(* Claims about _cluster_segments                                          *)
(***************************************************************************)
\* the range of the Python index i of break_points: segments [start, end)
RangeStart(i) == break_points[i + 1]
RangeEnd(i) ==
    IF i + 1 < Len(break_points) THEN break_points[i + 2]
    ELSE Len(transcript.segments)
RangeNonEmpty(i) == RangeEnd(i) > RangeStart(i)
RangeIsShort(i) ==
    2 * (transcript.segments[RangeEnd(i)].end
         - transcript.segments[RangeStart(i) + 1].start) < min_duration
RangeHasPrevious(i) == \E j \in 0..(i - 1) : RangeNonEmpty(j)

\* the range i lies inside cluster c, right after the segment before the
\* range, and the cluster's end is the end of the range or later
AppendedTo(c, i) ==
    \E off \in 1..Len(c.segments) :
        /\ Slice(c.segments, off, off + RangeEnd(i) - RangeStart(i))
             = Slice(transcript.segments, RangeStart(i), RangeEnd(i))
        /\ c.segments[off] = transcript.segments[RangeStart(i)]
        /\ c.end >= transcript.segments[RangeEnd(i)].end

Occurrences(lst, e) == Cardinality({ k \in 1..Len(lst) : lst[k] = e })

\* the heuristic entry b is in the merged list next, beyond the copies of it
\* the model-origin list already held
AddedByMerge(b) ==
    Occurrences(result', heuristic_timestamps[b])
        > Occurrences(timestamps, heuristic_timestamps[b])

\* C25: the merge adds a heuristic candidate only if no entry in the list at
\* that moment, model-origin or heuristic-origin added before it, lies within
\* 30 s of its time; every model-origin entry is retained and the merged
\* list is sorted ascending by time.
C25_AddedOnlyIfFarFromList ==
    [][(call = "generate_timestamps" /\ pc = "merge" /\ pc' = "done")
        => /\ \A b \in 1..Len(heuristic_timestamps) :
                AddedByMerge(b)
                  => /\ \A a \in 1..Len(timestamps) :
                          Abs(heuristic_timestamps[b].time - timestamps[a].time) >= 30
                     /\ \A c \in 1..(b - 1) :
                          AddedByMerge(c)
                            => Abs(heuristic_timestamps[b].time
                                   - heuristic_timestamps[c].time) >= 30
           /\ \A a \in 1..Len(timestamps) :
                Occurrences(result', timestamps[a]) >= Occurrences(timestamps, timestamps[a])
           /\ \A k \in 1..(Len(result') - 1) :
                result'[k].time <= result'[k + 1].time]_vars

(***************************************************************************)
(* Claims about parse_timestamps_from_response and validate_timestamps     *)
(***************************************************************************)
\* an array entry that is not an object, or whose time is missing or
\* non-numeric, or whose title is missing or blank
MalformedEntry(ts) ==
    \/ ts.type # "dict"
    \/ ts.time.kind \in {"missing", "bad"}
    \/ Strip(ts.title) = ""

WellFormedEntry(ts) == ~MalformedEntry(ts)

\* C26: parse_timestamps_from_response drops an array entry that is not an
\* object, whose time is missing or non-numeric, or whose title is missing
\* or blank: the loop raises nothing and accepts exactly what it would accept
\* from the array without these entries (they are not in the output and do
\* not change the last accepted time).
C26_MalformedDropped ==
    [][(call = "parse_timestamps_from_response" /\ pc = "parse_loop"
        /\ pc' = "parse_post")
        => /\ raised' = ""
           /\ validated' = ParseLoop(SelectSeq(response.timestamps, WellFormedEntry),
                                     1, transcript.duration, min_duration,
                                     <<>>, -min_duration)]_vars

\* a can be had from b by deleting entries of b
RECURSIVE IsSubsequence(_, _)
IsSubsequence(a, b) ==
    IF a = <<>> THEN TRUE
    ELSE IF b = <<>> THEN FALSE
    ELSE IF Head(a) = Head(b) THEN IsSubsequence(Tail(a), Tail(b))
    ELSE IsSubsequence(a, Tail(b))

TimeSorted(lst) == \A k \in 1..(Len(lst) - 1) : lst[k].time <= lst[k + 1].time

\* the synthesized entry of lines 244-252, which no candidate has (evidence)
IsSynthesized(e) ==
    "evidence" \in DOMAIN e /\ e.time = 0 /\ e.title = "Introdução"

\* C27: validate_timestamps neither reorders nor modifies candidates: its
\* output, with the optional synthesized leading entry removed, is a
\* subsequence of the input list in input order, each accepted candidate
\* equal to its input; for time-sorted input the output is time-sorted.
C27_OutputIsSubsequence ==
    [][(call = "validate_timestamps" /\ pc = "validate_post" /\ pc' = "done")
        => /\ \/ IsSubsequence(result', timestamps)
              \/ /\ result' # <<>> /\ IsSynthesized(result'[1])
                 /\ IsSubsequence(Tail(result'), timestamps)
           /\ TimeSorted(timestamps) => TimeSorted(result')]_vars

\* C27 witness: of three time-sorted candidates the first is accepted, the
\* second dropped and the third accepted, after a synthesized leading entry
C27_Witness ==
    /\ call = "validate_timestamps" /\ pc = "done"
    /\ Len(timestamps) = 3 /\ TimeSorted(timestamps)
    /\ Len(result) = 3 /\ IsSynthesized(result[1])
    /\ result[2] = timestamps[1] /\ result[3] = timestamps[3]

(***************************************************************************)
(* Claims about generate_smart_timestamps                                  *)
(***************************************************************************)
\* generate_smart_timestamps returns on this step
SmartReturns ==
    /\ call = "generate_smart_timestamps" /\ pc = "generate_smart_timestamps"
    /\ pc' = "done" /\ raised' = ""

\* C28: for a non-empty transcript and min_duration >= 1 the list returned
\* by generate_smart_timestamps has strictly increasing times (no two
\* entries share a time), whole numbers of seconds, and its first entry has
\* time 0.
C28_StrictlyIncreasingFromZero ==
    [][(SmartReturns /\ transcript.segments # <<>> /\ min_duration >= 1)
        => /\ result' # <<>> /\ result'[1].time = 0
           /\ \A k \in 1..Len(result') : result'[k].time \in Nat
           /\ \A k \in 1..(Len(result') - 1) :
                result'[k].time < result'[k + 1].time]_vars

\* C28 witness: a call on a transcript of several windows has returned topic
\* change entries and interval entries that lie between them
C28_Witness ==
    /\ call = "generate_smart_timestamps" /\ pc = "done" /\ raised = ""
    /\ Len(CreateContentWindows(transcript, WindowSize)) >= 3
    /\ Len(result) >= 6
    /\ \E k \in 2..(Len(result) - 1) :
         /\ result[k].time = CreateContentWindows(transcript, WindowSize)[2].start
         /\ result[k + 1].time < CreateContentWindows(transcript, WindowSize)[3].start

\* the topic-change entries and the interval entries of lines 247-276, before
\* the sort and the cut
SmartCandidates ==
    LET windows == CreateContentWindows(transcript, WindowSize)
    IN  AddIntervalEntries(windows, video_title,
            ChangeEntriesFrom(windows, DetectTopicChanges(windows), 0,
                              video_title, min_duration, <<>>)).ts

CandidateTimes == { SmartCandidates[k].time : k \in 1..Len(SmartCandidates) }

\* the n smallest members of the set of numbers s (all of them if fewer)
Smallest(s, n) == { t \in s : Cardinality({ u \in s : u < t }) < n }

\* C29: generate_smart_timestamps returns at most 20 entries; when more than
\* 20 candidates exist (topic-change entries plus interval entries), exactly
\* the 20 with the smallest times are kept and the later ones discarded.
C29_AtMostTwentyEarliest ==
    [][SmartReturns
        => /\ Len(result') <= 20
           /\ (transcript.segments # <<>> /\ Len(SmartCandidates) > 20)
                => /\ Len(result') = 20
                   /\ { result'[k].time : k \in 1..Len(result') }
                        = Smallest(CandidateTimes, 20)]_vars

\* C29 witness: a call with more than 20 candidates has returned 20 entries
C29_Witness ==
    /\ call = "generate_smart_timestamps" /\ pc = "done" /\ raised = ""
    /\ transcript.segments # <<>>
    /\ Len(SmartCandidates) > 20
    /\ Len(result) = 20

PositionPhrases ==
    {"Contexto inicial", "Desenvolvendo a ideia", "Ponto principal",
     "Aprofundando o tema", "Conclusões"}

\* the phrase for a start at the fraction start / total of the video,
\* bucketed at 0.2, 0.4, 0.6 and 0.8
PhraseAtFraction(start, total) ==
    IF 10 * start < 2 * total THEN "Contexto inicial"
    ELSE IF 10 * start < 4 * total THEN "Desenvolvendo a ideia"
    ELSE IF 10 * start < 6 * total THEN "Ponto principal"
    ELSE IF 10 * start < 8 * total THEN "Aprofundando o tema"
    ELSE "Conclusões"

\* C30: when _create_title_for_window reaches the positional fallback, the
\* phrase is the one for the window's start as a fraction of the total video
\* duration, bucketed at 0.2, 0.4, 0.6 and 0.8 into the five fixed phrases:
\* every entry of generate_smart_timestamps titled with one of the phrases
\* lies in a window whose start, over the video's duration, gives that phrase.
C30_PositionByVideoFraction ==
    [][(call = "generate_smart_timestamps" /\ pc = "generate_smart_timestamps"
        /\ pc' = "done" /\ transcript.duration > 0)
        => LET windows == CreateContentWindows(transcript, WindowSize)
           IN  \A k \in 1..Len(SmartCandidates) :
                 SmartCandidates[k].title \in PositionPhrases
                   => \E w \in 1..Len(windows) :
                        /\ windows[w].start <= SmartCandidates[k].time
                        /\ SmartCandidates[k].time <= windows[w].end
                        /\ SmartCandidates[k].title
                             = PhraseAtFraction(windows[w].start, transcript.duration)]_vars

====
